---- MODULE Spec2Model ----
(***************************************************************************)
(* Model of src/main.py: the BIP39 seed-plate helper.                      *)
(*                                                                         *)
(* A text is the sequence of the Unicode code points of its characters     *)
(* ("back" is <<98, 97, 99, 107>>), so that strip() and lower() are        *)
(* computed as str.strip() and str.lower() compute them, over the whole of *)
(* Unicode (the tables are those of Unicode 14.0.0, which CPython 3.11     *)
(* carries).  The word-list file is the sequence of its lines, as          *)
(* read_text().splitlines() yields them.  What is printed is kept as a     *)
(* record of its values; the close-match hint of one_based_index only      *)
(* words the error message and is left out.                                *)
(***************************************************************************)
EXTENDS Integers, Sequences, FiniteSets

VARIABLES
    argv,        \* "check" when sys.argv[1] == "--check", "main" otherwise
    bip39_file,  \* which file sits at BIP39_FILE (a name of FS)
    pc,          \* position of the program
    wordlist,    \* main(): wordlist
    words,       \* main(): words
    indices,     \* main(): indices
    raw,         \* main(): raw, the last line read, stripped and lowered
    printed,     \* the last message printed (print, sys.exit)
    summary,     \* the SUMMARY table as printed
    plates,      \* the plates printed so far, in order
    ci,          \* _self_check(): i
    cs           \* _self_check(): s

vars == <<argv, bip39_file, pc, wordlist, words, indices, raw, printed, summary, plates, ci, cs>>

(***************************************************************************)
(* Program constants                                                       *)
(***************************************************************************)
POWERS_DESC == <<2048, 1024, 512, 256, 128, 64, 32, 16, 8, 4, 2, 1>>
MAX_WORDS == 24
PLATE_ROWS == 12
EXPECTED_LEN == 2048
CHECK_LAST == 2048

(***************************************************************************)
(* Bounds of the model                                                     *)
(***************************************************************************)
\* how many consecutive entries of a session may hold a word other than the
\* first word of the list
MaxOtherRun == 1

(***************************************************************************)
(* Characters and texts                                                    *)
(***************************************************************************)
\* the characters str.strip() removes (those str.isspace() holds of):
\* \t \n \x0b \x0c \r, \x1c..\x1f, space, \x85, \xa0, U+1680, U+2000..U+200A,
\* U+2028, U+2029, U+202F, U+205F, U+3000
WHITESPACE ==
    (9..13) \cup (28..32) \cup {133, 160, 5760} \cup (8192..8202)
        \cup {8232, 8233, 8239, 8287, 12288}

\* The simple lowercase mappings, as rows <<lo, hi, step, delta>>: a character
\* c with lo <= c <= hi and (c - lo) % step = 0 lowers to c + delta.
LOWER_RUNS ==
  <<
    <<65, 90, 1, 32>>, <<192, 214, 1, 32>>, <<216, 222, 1, 32>>, <<256, 302, 2, 1>>,
    <<306, 310, 2, 1>>, <<313, 327, 2, 1>>, <<330, 374, 2, 1>>, <<376, 376, 1, -121>>,
    <<377, 381, 2, 1>>, <<385, 385, 1, 210>>, <<386, 388, 2, 1>>, <<390, 390, 1, 206>>,
    <<391, 391, 1, 1>>, <<393, 394, 1, 205>>, <<395, 395, 1, 1>>, <<398, 398, 1, 79>>,
    <<399, 399, 1, 202>>, <<400, 400, 1, 203>>, <<401, 401, 1, 1>>, <<403, 403, 1, 205>>,
    <<404, 404, 1, 207>>, <<406, 406, 1, 211>>, <<407, 407, 1, 209>>, <<408, 408, 1, 1>>,
    <<412, 412, 1, 211>>, <<413, 413, 1, 213>>, <<415, 415, 1, 214>>, <<416, 420, 2, 1>>,
    <<422, 422, 1, 218>>, <<423, 423, 1, 1>>, <<425, 425, 1, 218>>, <<428, 428, 1, 1>>,
    <<430, 430, 1, 218>>, <<431, 431, 1, 1>>, <<433, 434, 1, 217>>, <<435, 437, 2, 1>>,
    <<439, 439, 1, 219>>, <<440, 440, 1, 1>>, <<444, 444, 1, 1>>, <<452, 452, 1, 2>>,
    <<453, 453, 1, 1>>, <<455, 455, 1, 2>>, <<456, 456, 1, 1>>, <<458, 458, 1, 2>>,
    <<459, 475, 2, 1>>, <<478, 494, 2, 1>>, <<497, 497, 1, 2>>, <<498, 500, 2, 1>>,
    <<502, 502, 1, -97>>, <<503, 503, 1, -56>>, <<504, 542, 2, 1>>, <<544, 544, 1, -130>>,
    <<546, 562, 2, 1>>, <<570, 570, 1, 10795>>, <<571, 571, 1, 1>>, <<573, 573, 1, -163>>,
    <<574, 574, 1, 10792>>, <<577, 577, 1, 1>>, <<579, 579, 1, -195>>, <<580, 580, 1, 69>>,
    <<581, 581, 1, 71>>, <<582, 590, 2, 1>>, <<880, 882, 2, 1>>, <<886, 886, 1, 1>>,
    <<895, 895, 1, 116>>, <<902, 902, 1, 38>>, <<904, 906, 1, 37>>, <<908, 908, 1, 64>>,
    <<910, 911, 1, 63>>, <<913, 929, 1, 32>>, <<931, 939, 1, 32>>, <<975, 975, 1, 8>>,
    <<984, 1006, 2, 1>>, <<1012, 1012, 1, -60>>, <<1015, 1015, 1, 1>>, <<1017, 1017, 1, -7>>,
    <<1018, 1018, 1, 1>>, <<1021, 1023, 1, -130>>, <<1024, 1039, 1, 80>>, <<1040, 1071, 1, 32>>,
    <<1120, 1152, 2, 1>>, <<1162, 1214, 2, 1>>, <<1216, 1216, 1, 15>>, <<1217, 1229, 2, 1>>,
    <<1232, 1326, 2, 1>>, <<1329, 1366, 1, 48>>, <<4256, 4293, 1, 7264>>, <<4295, 4295, 1, 7264>>,
    <<4301, 4301, 1, 7264>>, <<5024, 5103, 1, 38864>>, <<5104, 5109, 1, 8>>, <<7312, 7354, 1, -3008>>,
    <<7357, 7359, 1, -3008>>, <<7680, 7828, 2, 1>>, <<7838, 7838, 1, -7615>>, <<7840, 7934, 2, 1>>,
    <<7944, 7951, 1, -8>>, <<7960, 7965, 1, -8>>, <<7976, 7983, 1, -8>>, <<7992, 7999, 1, -8>>,
    <<8008, 8013, 1, -8>>, <<8025, 8031, 2, -8>>, <<8040, 8047, 1, -8>>, <<8072, 8079, 1, -8>>,
    <<8088, 8095, 1, -8>>, <<8104, 8111, 1, -8>>, <<8120, 8121, 1, -8>>, <<8122, 8123, 1, -74>>,
    <<8124, 8124, 1, -9>>, <<8136, 8139, 1, -86>>, <<8140, 8140, 1, -9>>, <<8152, 8153, 1, -8>>,
    <<8154, 8155, 1, -100>>, <<8168, 8169, 1, -8>>, <<8170, 8171, 1, -112>>, <<8172, 8172, 1, -7>>,
    <<8184, 8185, 1, -128>>, <<8186, 8187, 1, -126>>, <<8188, 8188, 1, -9>>, <<8486, 8486, 1, -7517>>,
    <<8490, 8490, 1, -8383>>, <<8491, 8491, 1, -8262>>, <<8498, 8498, 1, 28>>, <<8544, 8559, 1, 16>>,
    <<8579, 8579, 1, 1>>, <<9398, 9423, 1, 26>>, <<11264, 11311, 1, 48>>, <<11360, 11360, 1, 1>>,
    <<11362, 11362, 1, -10743>>, <<11363, 11363, 1, -3814>>, <<11364, 11364, 1, -10727>>, <<11367, 11371, 2, 1>>,
    <<11373, 11373, 1, -10780>>, <<11374, 11374, 1, -10749>>, <<11375, 11375, 1, -10783>>, <<11376, 11376, 1, -10782>>,
    <<11378, 11378, 1, 1>>, <<11381, 11381, 1, 1>>, <<11390, 11391, 1, -10815>>, <<11392, 11490, 2, 1>>,
    <<11499, 11501, 2, 1>>, <<11506, 11506, 1, 1>>, <<42560, 42604, 2, 1>>, <<42624, 42650, 2, 1>>,
    <<42786, 42798, 2, 1>>, <<42802, 42862, 2, 1>>, <<42873, 42875, 2, 1>>, <<42877, 42877, 1, -35332>>,
    <<42878, 42886, 2, 1>>, <<42891, 42891, 1, 1>>, <<42893, 42893, 1, -42280>>, <<42896, 42898, 2, 1>>,
    <<42902, 42920, 2, 1>>, <<42922, 42922, 1, -42308>>, <<42923, 42923, 1, -42319>>, <<42924, 42924, 1, -42315>>,
    <<42925, 42925, 1, -42305>>, <<42926, 42926, 1, -42308>>, <<42928, 42928, 1, -42258>>, <<42929, 42929, 1, -42282>>,
    <<42930, 42930, 1, -42261>>, <<42931, 42931, 1, 928>>, <<42932, 42946, 2, 1>>, <<42948, 42948, 1, -48>>,
    <<42949, 42949, 1, -42307>>, <<42950, 42950, 1, -35384>>, <<42951, 42953, 2, 1>>, <<42960, 42960, 1, 1>>,
    <<42966, 42968, 2, 1>>, <<42997, 42997, 1, 1>>, <<65313, 65338, 1, 32>>, <<66560, 66599, 1, 40>>,
    <<66736, 66771, 1, 40>>, <<66928, 66938, 1, 39>>, <<66940, 66954, 1, 39>>, <<66956, 66962, 1, 39>>,
    <<66964, 66965, 1, 39>>, <<68736, 68786, 1, 64>>, <<71840, 71871, 1, 32>>, <<93760, 93791, 1, 32>>,
    <<125184, 125217, 1, 34>>
  >>

\* the characters with the Unicode property Cased, as rows <<lo, hi>>
CASED ==
  <<
    <<65, 90>>, <<97, 122>>, <<170, 170>>, <<181, 181>>, <<186, 186>>, <<192, 214>>,
    <<216, 246>>, <<248, 442>>, <<444, 447>>, <<452, 659>>, <<661, 696>>, <<704, 705>>,
    <<736, 740>>, <<837, 837>>, <<880, 883>>, <<886, 887>>, <<890, 893>>, <<895, 895>>,
    <<902, 902>>, <<904, 906>>, <<908, 908>>, <<910, 929>>, <<931, 1013>>, <<1015, 1153>>,
    <<1162, 1327>>, <<1329, 1366>>, <<1376, 1416>>, <<4256, 4293>>, <<4295, 4295>>, <<4301, 4301>>,
    <<4304, 4346>>, <<4349, 4351>>, <<5024, 5109>>, <<5112, 5117>>, <<7296, 7304>>, <<7312, 7354>>,
    <<7357, 7359>>, <<7424, 7615>>, <<7680, 7957>>, <<7960, 7965>>, <<7968, 8005>>, <<8008, 8013>>,
    <<8016, 8023>>, <<8025, 8025>>, <<8027, 8027>>, <<8029, 8029>>, <<8031, 8061>>, <<8064, 8116>>,
    <<8118, 8124>>, <<8126, 8126>>, <<8130, 8132>>, <<8134, 8140>>, <<8144, 8147>>, <<8150, 8155>>,
    <<8160, 8172>>, <<8178, 8180>>, <<8182, 8188>>, <<8305, 8305>>, <<8319, 8319>>, <<8336, 8348>>,
    <<8450, 8450>>, <<8455, 8455>>, <<8458, 8467>>, <<8469, 8469>>, <<8473, 8477>>, <<8484, 8484>>,
    <<8486, 8486>>, <<8488, 8488>>, <<8490, 8493>>, <<8495, 8500>>, <<8505, 8505>>, <<8508, 8511>>,
    <<8517, 8521>>, <<8526, 8526>>, <<8544, 8575>>, <<8579, 8580>>, <<9398, 9449>>, <<11264, 11492>>,
    <<11499, 11502>>, <<11506, 11507>>, <<11520, 11557>>, <<11559, 11559>>, <<11565, 11565>>, <<42560, 42605>>,
    <<42624, 42653>>, <<42786, 42887>>, <<42891, 42894>>, <<42896, 42954>>, <<42960, 42961>>, <<42963, 42963>>,
    <<42965, 42969>>, <<42997, 42998>>, <<43000, 43002>>, <<43824, 43866>>, <<43868, 43880>>, <<43888, 43967>>,
    <<64256, 64262>>, <<64275, 64279>>, <<65313, 65338>>, <<65345, 65370>>, <<66560, 66639>>, <<66736, 66771>>,
    <<66776, 66811>>, <<66928, 66938>>, <<66940, 66954>>, <<66956, 66962>>, <<66964, 66965>>, <<66967, 66977>>,
    <<66979, 66993>>, <<66995, 67001>>, <<67003, 67004>>, <<67456, 67456>>, <<67459, 67461>>, <<67463, 67504>>,
    <<67506, 67514>>, <<68736, 68786>>, <<68800, 68850>>, <<71840, 71903>>, <<93760, 93823>>, <<119808, 119892>>,
    <<119894, 119964>>, <<119966, 119967>>, <<119970, 119970>>, <<119973, 119974>>, <<119977, 119980>>, <<119982, 119993>>,
    <<119995, 119995>>, <<119997, 120003>>, <<120005, 120069>>, <<120071, 120074>>, <<120077, 120084>>, <<120086, 120092>>,
    <<120094, 120121>>, <<120123, 120126>>, <<120128, 120132>>, <<120134, 120134>>, <<120138, 120144>>, <<120146, 120485>>,
    <<120488, 120512>>, <<120514, 120538>>, <<120540, 120570>>, <<120572, 120596>>, <<120598, 120628>>, <<120630, 120654>>,
    <<120656, 120686>>, <<120688, 120712>>, <<120714, 120744>>, <<120746, 120770>>, <<120772, 120779>>, <<122624, 122633>>,
    <<122635, 122654>>, <<125184, 125251>>, <<127280, 127305>>, <<127312, 127337>>, <<127344, 127369>>
  >>

\* the characters with the Unicode property Case_Ignorable, as rows <<lo, hi>>
CASE_IGNORABLE ==
  <<
    <<39, 39>>, <<46, 46>>, <<58, 58>>, <<94, 94>>, <<96, 96>>, <<168, 168>>,
    <<173, 173>>, <<175, 175>>, <<180, 180>>, <<183, 184>>, <<688, 879>>, <<884, 885>>,
    <<890, 890>>, <<900, 901>>, <<903, 903>>, <<1155, 1161>>, <<1369, 1369>>, <<1375, 1375>>,
    <<1425, 1469>>, <<1471, 1471>>, <<1473, 1474>>, <<1476, 1477>>, <<1479, 1479>>, <<1524, 1524>>,
    <<1536, 1541>>, <<1552, 1562>>, <<1564, 1564>>, <<1600, 1600>>, <<1611, 1631>>, <<1648, 1648>>,
    <<1750, 1757>>, <<1759, 1768>>, <<1770, 1773>>, <<1807, 1807>>, <<1809, 1809>>, <<1840, 1866>>,
    <<1958, 1968>>, <<2027, 2037>>, <<2042, 2042>>, <<2045, 2045>>, <<2070, 2093>>, <<2137, 2139>>,
    <<2184, 2184>>, <<2192, 2193>>, <<2200, 2207>>, <<2249, 2306>>, <<2362, 2362>>, <<2364, 2364>>,
    <<2369, 2376>>, <<2381, 2381>>, <<2385, 2391>>, <<2402, 2403>>, <<2417, 2417>>, <<2433, 2433>>,
    <<2492, 2492>>, <<2497, 2500>>, <<2509, 2509>>, <<2530, 2531>>, <<2558, 2558>>, <<2561, 2562>>,
    <<2620, 2620>>, <<2625, 2626>>, <<2631, 2632>>, <<2635, 2637>>, <<2641, 2641>>, <<2672, 2673>>,
    <<2677, 2677>>, <<2689, 2690>>, <<2748, 2748>>, <<2753, 2757>>, <<2759, 2760>>, <<2765, 2765>>,
    <<2786, 2787>>, <<2810, 2815>>, <<2817, 2817>>, <<2876, 2876>>, <<2879, 2879>>, <<2881, 2884>>,
    <<2893, 2893>>, <<2901, 2902>>, <<2914, 2915>>, <<2946, 2946>>, <<3008, 3008>>, <<3021, 3021>>,
    <<3072, 3072>>, <<3076, 3076>>, <<3132, 3132>>, <<3134, 3136>>, <<3142, 3144>>, <<3146, 3149>>,
    <<3157, 3158>>, <<3170, 3171>>, <<3201, 3201>>, <<3260, 3260>>, <<3263, 3263>>, <<3270, 3270>>,
    <<3276, 3277>>, <<3298, 3299>>, <<3328, 3329>>, <<3387, 3388>>, <<3393, 3396>>, <<3405, 3405>>,
    <<3426, 3427>>, <<3457, 3457>>, <<3530, 3530>>, <<3538, 3540>>, <<3542, 3542>>, <<3633, 3633>>,
    <<3636, 3642>>, <<3654, 3662>>, <<3761, 3761>>, <<3764, 3772>>, <<3782, 3782>>, <<3784, 3789>>,
    <<3864, 3865>>, <<3893, 3893>>, <<3895, 3895>>, <<3897, 3897>>, <<3953, 3966>>, <<3968, 3972>>,
    <<3974, 3975>>, <<3981, 3991>>, <<3993, 4028>>, <<4038, 4038>>, <<4141, 4144>>, <<4146, 4151>>,
    <<4153, 4154>>, <<4157, 4158>>, <<4184, 4185>>, <<4190, 4192>>, <<4209, 4212>>, <<4226, 4226>>,
    <<4229, 4230>>, <<4237, 4237>>, <<4253, 4253>>, <<4348, 4348>>, <<4957, 4959>>, <<5906, 5908>>,
    <<5938, 5939>>, <<5970, 5971>>, <<6002, 6003>>, <<6068, 6069>>, <<6071, 6077>>, <<6086, 6086>>,
    <<6089, 6099>>, <<6103, 6103>>, <<6109, 6109>>, <<6155, 6159>>, <<6211, 6211>>, <<6277, 6278>>,
    <<6313, 6313>>, <<6432, 6434>>, <<6439, 6440>>, <<6450, 6450>>, <<6457, 6459>>, <<6679, 6680>>,
    <<6683, 6683>>, <<6742, 6742>>, <<6744, 6750>>, <<6752, 6752>>, <<6754, 6754>>, <<6757, 6764>>,
    <<6771, 6780>>, <<6783, 6783>>, <<6823, 6823>>, <<6832, 6862>>, <<6912, 6915>>, <<6964, 6964>>,
    <<6966, 6970>>, <<6972, 6972>>, <<6978, 6978>>, <<7019, 7027>>, <<7040, 7041>>, <<7074, 7077>>,
    <<7080, 7081>>, <<7083, 7085>>, <<7142, 7142>>, <<7144, 7145>>, <<7149, 7149>>, <<7151, 7153>>,
    <<7212, 7219>>, <<7222, 7223>>, <<7288, 7293>>, <<7376, 7378>>, <<7380, 7392>>, <<7394, 7400>>,
    <<7405, 7405>>, <<7412, 7412>>, <<7416, 7417>>, <<7468, 7530>>, <<7544, 7544>>, <<7579, 7679>>,
    <<8125, 8125>>, <<8127, 8129>>, <<8141, 8143>>, <<8157, 8159>>, <<8173, 8175>>, <<8189, 8190>>,
    <<8203, 8207>>, <<8216, 8217>>, <<8228, 8228>>, <<8231, 8231>>, <<8234, 8238>>, <<8288, 8292>>,
    <<8294, 8303>>, <<8305, 8305>>, <<8319, 8319>>, <<8336, 8348>>, <<8400, 8432>>, <<11388, 11389>>,
    <<11503, 11505>>, <<11631, 11631>>, <<11647, 11647>>, <<11744, 11775>>, <<11823, 11823>>, <<12293, 12293>>,
    <<12330, 12333>>, <<12337, 12341>>, <<12347, 12347>>, <<12441, 12446>>, <<12540, 12542>>, <<40981, 40981>>,
    <<42232, 42237>>, <<42508, 42508>>, <<42607, 42610>>, <<42612, 42621>>, <<42623, 42623>>, <<42652, 42655>>,
    <<42736, 42737>>, <<42752, 42785>>, <<42864, 42864>>, <<42888, 42890>>, <<42994, 42996>>, <<43000, 43001>>,
    <<43010, 43010>>, <<43014, 43014>>, <<43019, 43019>>, <<43045, 43046>>, <<43052, 43052>>, <<43204, 43205>>,
    <<43232, 43249>>, <<43263, 43263>>, <<43302, 43309>>, <<43335, 43345>>, <<43392, 43394>>, <<43443, 43443>>,
    <<43446, 43449>>, <<43452, 43453>>, <<43471, 43471>>, <<43493, 43494>>, <<43561, 43566>>, <<43569, 43570>>,
    <<43573, 43574>>, <<43587, 43587>>, <<43596, 43596>>, <<43632, 43632>>, <<43644, 43644>>, <<43696, 43696>>,
    <<43698, 43700>>, <<43703, 43704>>, <<43710, 43711>>, <<43713, 43713>>, <<43741, 43741>>, <<43756, 43757>>,
    <<43763, 43764>>, <<43766, 43766>>, <<43867, 43871>>, <<43881, 43883>>, <<44005, 44005>>, <<44008, 44008>>,
    <<44013, 44013>>, <<64286, 64286>>, <<64434, 64450>>, <<65024, 65039>>, <<65043, 65043>>, <<65056, 65071>>,
    <<65106, 65106>>, <<65109, 65109>>, <<65279, 65279>>, <<65287, 65287>>, <<65294, 65294>>, <<65306, 65306>>,
    <<65342, 65342>>, <<65344, 65344>>, <<65392, 65392>>, <<65438, 65439>>, <<65507, 65507>>, <<65529, 65531>>,
    <<66045, 66045>>, <<66272, 66272>>, <<66422, 66426>>, <<67456, 67461>>, <<67463, 67504>>, <<67506, 67514>>,
    <<68097, 68099>>, <<68101, 68102>>, <<68108, 68111>>, <<68152, 68154>>, <<68159, 68159>>, <<68325, 68326>>,
    <<68900, 68903>>, <<69291, 69292>>, <<69446, 69456>>, <<69506, 69509>>, <<69633, 69633>>, <<69688, 69702>>,
    <<69744, 69744>>, <<69747, 69748>>, <<69759, 69761>>, <<69811, 69814>>, <<69817, 69818>>, <<69821, 69821>>,
    <<69826, 69826>>, <<69837, 69837>>, <<69888, 69890>>, <<69927, 69931>>, <<69933, 69940>>, <<70003, 70003>>,
    <<70016, 70017>>, <<70070, 70078>>, <<70089, 70092>>, <<70095, 70095>>, <<70191, 70193>>, <<70196, 70196>>,
    <<70198, 70199>>, <<70206, 70206>>, <<70367, 70367>>, <<70371, 70378>>, <<70400, 70401>>, <<70459, 70460>>,
    <<70464, 70464>>, <<70502, 70508>>, <<70512, 70516>>, <<70712, 70719>>, <<70722, 70724>>, <<70726, 70726>>,
    <<70750, 70750>>, <<70835, 70840>>, <<70842, 70842>>, <<70847, 70848>>, <<70850, 70851>>, <<71090, 71093>>,
    <<71100, 71101>>, <<71103, 71104>>, <<71132, 71133>>, <<71219, 71226>>, <<71229, 71229>>, <<71231, 71232>>,
    <<71339, 71339>>, <<71341, 71341>>, <<71344, 71349>>, <<71351, 71351>>, <<71453, 71455>>, <<71458, 71461>>,
    <<71463, 71467>>, <<71727, 71735>>, <<71737, 71738>>, <<71995, 71996>>, <<71998, 71998>>, <<72003, 72003>>,
    <<72148, 72151>>, <<72154, 72155>>, <<72160, 72160>>, <<72193, 72202>>, <<72243, 72248>>, <<72251, 72254>>,
    <<72263, 72263>>, <<72273, 72278>>, <<72281, 72283>>, <<72330, 72342>>, <<72344, 72345>>, <<72752, 72758>>,
    <<72760, 72765>>, <<72767, 72767>>, <<72850, 72871>>, <<72874, 72880>>, <<72882, 72883>>, <<72885, 72886>>,
    <<73009, 73014>>, <<73018, 73018>>, <<73020, 73021>>, <<73023, 73029>>, <<73031, 73031>>, <<73104, 73105>>,
    <<73109, 73109>>, <<73111, 73111>>, <<73459, 73460>>, <<78896, 78904>>, <<92912, 92916>>, <<92976, 92982>>,
    <<92992, 92995>>, <<94031, 94031>>, <<94095, 94111>>, <<94176, 94177>>, <<94179, 94180>>, <<110576, 110579>>,
    <<110581, 110587>>, <<110589, 110590>>, <<113821, 113822>>, <<113824, 113827>>, <<118528, 118573>>, <<118576, 118598>>,
    <<119143, 119145>>, <<119155, 119170>>, <<119173, 119179>>, <<119210, 119213>>, <<119362, 119364>>, <<121344, 121398>>,
    <<121403, 121452>>, <<121461, 121461>>, <<121476, 121476>>, <<121499, 121503>>, <<121505, 121519>>, <<122880, 122886>>,
    <<122888, 122904>>, <<122907, 122913>>, <<122915, 122916>>, <<122918, 122922>>, <<123184, 123197>>, <<123566, 123566>>,
    <<123628, 123631>>, <<125136, 125142>>, <<125252, 125259>>, <<127995, 127999>>, <<917505, 917505>>, <<917536, 917631>>,
    <<917760, 917999>>
  >>

IsCased(c) == \E k \in 1..Len(CASED) : CASED[k][1] <= c /\ c <= CASED[k][2]

IsCaseIgnorable(c) ==
    \E k \in 1..Len(CASE_IGNORABLE) :
        CASE_IGNORABLE[k][1] <= c /\ c <= CASE_IGNORABLE[k][2]

CAPITAL_SIGMA == 931
SMALL_SIGMA == 963
FINAL_SIGMA == 962
CAPITAL_I_WITH_DOT == 304

InLowerRun(c, k) ==
    /\ LOWER_RUNS[k][1] <= c /\ c <= LOWER_RUNS[k][2]
    /\ (c - LOWER_RUNS[k][1]) % LOWER_RUNS[k][3] = 0

\* str.lower() on one character out of context: the text it lowers to
\* (U+0130 lowers to the two characters "i" and U+0307)
lower_char(c) ==
    IF c < 128 THEN (IF c \in 65..90 THEN <<c + 32>> ELSE <<c>>)
    ELSE IF c = CAPITAL_I_WITH_DOT THEN <<105, 775>>
    ELSE IF \E k \in 1..Len(LOWER_RUNS) : InLowerRun(c, k)
         THEN <<c + LOWER_RUNS[CHOOSE k \in 1..Len(LOWER_RUNS) : InLowerRun(c, k)][4]>>
         ELSE <<c>>

\* the capital sigma s[i] lowers to the final sigma when a cased character
\* stands before it and none after it, characters that are case-ignorable
\* being passed over on both sides; to the small sigma otherwise
handle_capital_sigma(s, i) ==
    LET before == {j \in 1..(i - 1) : ~IsCaseIgnorable(s[j])}
        after == {j \in (i + 1)..Len(s) : ~IsCaseIgnorable(s[j])}
        j_before == CHOOSE j \in before : \A m \in before : m <= j
        j_after == CHOOSE j \in after : \A m \in after : j <= m
    IN IF /\ before # {}
          /\ IsCased(s[j_before])
          /\ (after = {} \/ ~IsCased(s[j_after]))
       THEN FINAL_SIGMA ELSE SMALL_SIGMA

RECURSIVE lower_from(_, _)
lower_from(s, i) ==
    IF i > Len(s) THEN <<>>
    ELSE (IF s[i] = CAPITAL_SIGMA THEN <<handle_capital_sigma(s, i)>>
          ELSE lower_char(s[i])) \o lower_from(s, i + 1)

\* str.lower()
str_lower(s) == lower_from(s, 1)

RECURSIVE str_lstrip(_)
str_lstrip(s) ==
    IF s # <<>> /\ Head(s) \in WHITESPACE THEN str_lstrip(Tail(s)) ELSE s

RECURSIVE str_rstrip(_)
str_rstrip(s) ==
    IF s # <<>> /\ s[Len(s)] \in WHITESPACE
    THEN str_rstrip(SubSeq(s, 1, Len(s) - 1)) ELSE s

\* str.strip()
str_strip(s) == str_rstrip(str_lstrip(s))

\* int & int on non-negative integers
RECURSIVE BitAnd(_, _)
BitAnd(a, b) ==
    IF a = 0 \/ b = 0 THEN 0
    ELSE (a % 2) * (b % 2) + 2 * BitAnd(a \div 2, b \div 2)

\* sum() over a sequence of integers
RECURSIVE SeqSum(_)
SeqSum(s) == IF s = <<>> THEN 0 ELSE Head(s) + SeqSum(Tail(s))

\* list.pop() leaves the list without its last element
PopList(s) == SubSeq(s, 1, Len(s) - 1)

(***************************************************************************)
(* The files that may sit at BIP39_FILE                                    *)
(***************************************************************************)
\* the letters "a" .. "p"
HEX == <<97, 98, 99, 100, 101, 102, 103, 104, 105, 106, 107, 108, 109, 110, 111, 112>>

\* the i-th word of a synthetic list of pairwise distinct 3-letter words
Word(i) == << HEX[(((i - 1) \div 256) % 16) + 1],
              HEX[(((i - 1) \div 16) % 16) + 1],
              HEX[((i - 1) % 16) + 1] >>

\* "back", "undo"
BACK == <<98, 97, 99, 107>>
UNDO == <<117, 110, 100, 111>>

\* A list shaped like the BIP-39 English list: 2048 distinct lowercase words,
\* one of which is "undo"; the file pads some lines (EM SPACE before, tab
\* after) and holds blank lines (one of them NO-BREAK SPACE and tab).
Bip39Lines ==
    [n \in 1..2051 |->
        IF n = 1 THEN <<8195>> \o Word(1) \o <<9>>
        ELSE IF n = 2 THEN <<>>
        ELSE IF n = 3 THEN Word(2)
        ELSE IF n = 4 THEN <<160, 9>>
        ELSE IF n = 1896 THEN UNDO
        ELSE IF n = 2051 THEN <<>>
        ELSE Word(n - 2)]

\* 2048 entries, two of them equal (the last entry repeats the first)
DupLines == [n \in 1..2048 |-> IF n = 2048 THEN Word(1) ELSE Word(n)]

\* 2048 lines of which one is blank (an IDEOGRAPHIC SPACE): 2047 entries
ShortLines == [n \in 1..2048 |-> IF n = 7 THEN <<12288>> ELSE Word(n)]

\* 2049 entries
LongLines == [n \in 1..2049 |-> Word(n)]

FileNames == {"missing", "bip39", "dup", "short", "long"}

FS == [f \in FileNames |->
        IF f = "missing" THEN [exists |-> FALSE, lines |-> <<>>]
        ELSE [exists |-> TRUE,
              lines |-> IF f = "bip39" THEN Bip39Lines
                        ELSE IF f = "dup" THEN DupLines
                        ELSE IF f = "short" THEN ShortLines
                        ELSE LongLines]]

\* the lines a user may type at the prompt
\*   " Aaa "                      the first word of the list, padded
\*   "aaa" FORM FEED              the same word
\*   "back", "bac" KELVIN SIGN    the undo command (the sign lowers to "k")
\*   "Undo" tab                   the undo command
\*   "", "  ", NO-BREAK SPACE      nothing but whitespace
\*   "zzz"                        no word of the list
\*   U+0130 "Z" CAPITAL SIGMA     no word of the list: lowers to INVALID_LOWERED
\*   "hpp"                        the last word of the list
PrimaryLine == <<32, 65, 97, 97, 32>>
OtherLines == { Word(2048) }
INVALID == <<122, 122, 122>>
INVALID_LOWERED == <<105, 775, 122, 962>>
InputLines ==
    { PrimaryLine, <<97, 97, 97, 12>>,
      BACK, <<98, 97, 99, 8490>>, <<85, 110, 100, 111, 9>>,
      <<>>, <<32, 32>>, <<160>>,
      INVALID, <<304, 90, 931>> } \cup OtherLines

(***************************************************************************)
(* The functions of main.py                                                *)
(***************************************************************************)
IsNonBlank(w) == str_strip(w) # <<>>

\* a loader that does not check the number of entries
load_bip39_nocheck(f) ==
    IF ~FS[f].exists
    THEN [exit |-> TRUE, why |-> "Word list file not found", n |-> 0, words |-> <<>>]
    ELSE LET kept == SelectSeq(FS[f].lines, IsNonBlank)
             stripped == [k \in 1..Len(kept) |-> str_strip(kept[k])]
         IN [exit |-> FALSE, why |-> "", n |-> Len(stripped), words |-> stripped]

load_bip39(f) ==
    IF ~FS[f].exists
    THEN [exit |-> TRUE, why |-> "Word list file not found", n |-> 0, words |-> <<>>]
    ELSE LET kept == SelectSeq(FS[f].lines, IsNonBlank)
             stripped == [k \in 1..Len(kept) |-> str_strip(kept[k])]
         IN IF Len(stripped) # EXPECTED_LEN
            THEN [exit |-> TRUE, why |-> "Unexpected word list length",
                  n |-> Len(stripped), words |-> <<>>]
            ELSE [exit |-> FALSE, why |-> "", n |-> Len(stripped), words |-> stripped]

\* list.index(x): the 0-based position of the first element equal to x
list_index(wl, word) ==
    (CHOOSE k \in 1..Len(wl) : wl[k] = word /\ \A j \in 1..(k - 1) : wl[j] # word) - 1

\* a resolver that returns the 0-based position
one_based_index_zero(word, wl) ==
    IF \E k \in 1..Len(wl) : wl[k] = word
    THEN [raised |-> FALSE, value |-> list_index(wl, word)]
    ELSE [raised |-> TRUE, value |-> 0]

\* raised: the ValueError branch (the close-match hint only words the message)
one_based_index(word, wl) ==
    IF \E k \in 1..Len(wl) : wl[k] = word
    THEN [raised |-> FALSE, value |-> list_index(wl, word) + 1]
    ELSE [raised |-> TRUE, value |-> 0]

\* a decomposer that knows eleven bit weights only (1024..1)
rows_to_punch_11bit(idx1) ==
    SelectSeq(Tail(POWERS_DESC), LAMBDA p : BitAnd(idx1, p) # 0)

rows_to_punch(idx1) ==
    SelectSeq(POWERS_DESC, LAMBDA p : BitAnd(idx1, p) # 0)

render_plate_rotated(block_indices, plate_no, start_word_no) ==
    [plate_no |-> plate_no,
     first |-> start_word_no,
     last |-> start_word_no + Len(block_indices) - 1,
     header |-> POWERS_DESC,
     rows |-> [k \in 1..Len(block_indices) |->
                [r |-> start_word_no + k - 1,
                 marks |-> [j \in 1..Len(POWERS_DESC) |->
                              BitAnd(block_indices[k], POWERS_DESC[j]) # 0],
                 idx1 |-> block_indices[k]]]]

NoMsg == [kind |-> "none"]

(***************************************************************************)
(* Initial state                                                           *)
(***************************************************************************)
Init ==
    /\ \/ argv = "check" /\ bip39_file = "bip39"
       \/ argv = "main" /\ bip39_file \in FileNames
    /\ pc = "start"
    /\ wordlist = <<>>
    /\ words = <<>>
    /\ indices = <<>>
    /\ raw = <<>>
    /\ printed = NoMsg
    /\ summary = <<>>
    /\ plates = <<>>
    /\ ci = 0
    /\ cs = 0

(***************************************************************************)
(* --check : _self_check()                                                 *)
(***************************************************************************)
StartCheck ==
    /\ pc = "start" /\ argv = "check"
    /\ pc' = "check"
    /\ UNCHANGED <<argv, bip39_file, wordlist, words, indices, raw, printed, summary, plates, ci, cs>>

\* the sum the loop body computes for i
check_sum(i) ==
    SeqSum(SelectSeq(POWERS_DESC, LAMBDA p : BitAnd(i, p) # 0))

\* one iteration of: for i in range(1, 2049)
CheckStep ==
    /\ pc = "check" /\ ci < CHECK_LAST
    /\ ci' = ci + 1
    /\ cs' = check_sum(ci + 1)
    /\ IF cs' = ci'
       THEN pc' = "check" /\ printed' = printed
       ELSE pc' = "assert_failed" /\ printed' = [kind |-> "Bit-sum mismatch"]
    /\ UNCHANGED <<argv, bip39_file, wordlist, words, indices, raw, summary, plates>>

CheckDone ==
    /\ pc = "check" /\ ci = CHECK_LAST
    /\ printed' = [kind |-> "OK"]
    /\ pc' = "exit"
    /\ UNCHANGED <<argv, bip39_file, wordlist, words, indices, raw, summary, plates, ci, cs>>

(***************************************************************************)
(* main()                                                                  *)
(***************************************************************************)
Load ==
    /\ pc = "start" /\ argv = "main"
    /\ LET res == load_bip39(bip39_file)
       IN IF res.exit
          THEN /\ pc' = "exit"
               /\ printed' = [kind |-> res.why]
               /\ wordlist' = wordlist
          ELSE /\ pc' = "loop"
               /\ printed' = [kind |-> "Enter your 24 BIP-39 words"]
               /\ wordlist' = res.words
    /\ UNCHANGED <<argv, bip39_file, words, indices, raw, summary, plates, ci, cs>>

\* an undo that removes the first entry, as pop(0) would
handle_undo_first ==
    IF words # <<>>
    THEN /\ words' = Tail(words)
         /\ indices' = Tail(indices)
         /\ printed' = [kind |-> "Removed", w |-> words[1], i |-> indices[1]]
    ELSE /\ printed' = [kind |-> "Nothing to remove"]
         /\ UNCHANGED <<words, indices>>

\* an undo that pops words and leaves indices alone
handle_undo_words_only ==
    IF words # <<>>
    THEN /\ words' = PopList(words)
         /\ indices' = indices
         /\ printed' = [kind |-> "Removed", w |-> words[Len(words)], i |-> indices[Len(indices)]]
    ELSE /\ printed' = [kind |-> "Nothing to remove"]
         /\ UNCHANGED <<words, indices>>

\* raw in ("back", "undo")
handle_undo ==
    IF words # <<>>
    THEN /\ words' = PopList(words)
         /\ indices' = PopList(indices)
         /\ printed' = [kind |-> "Removed", w |-> words[Len(words)], i |-> indices[Len(indices)]]
    ELSE /\ printed' = [kind |-> "Nothing to remove"]
         /\ UNCHANGED <<words, indices>>

\* raw == ""
handle_empty ==
    /\ printed' = [kind |-> "Please enter a word"]
    /\ UNCHANGED <<words, indices>>

\* an error branch without its continue: the word is appended all the same
handle_error_append(r) ==
    /\ printed' = [kind |-> "not in BIP39 list", w |-> r]
    /\ words' = Append(words, r)
    /\ indices' = Append(indices, 0)

\* except ValueError as e: print(e); continue
handle_error(r) ==
    /\ printed' = [kind |-> "not in BIP39 list", w |-> r]
    /\ UNCHANGED <<words, indices>>

\* the word resolved: append and acknowledge
handle_accept(r, idx1) ==
    /\ words' = Append(words, r)
    /\ indices' = Append(indices, idx1)
    /\ printed' = [kind |-> "index", w |-> r, i |-> idx1, rows |-> rows_to_punch(idx1)]

\* input(...).strip().lower()
read_raw(line) == str_lower(str_strip(line))

\* one iteration of the while loop, reading `line` from standard input
LoopBody(line) ==
    LET r == read_raw(line)
    IN /\ raw' = r
       /\ IF r \in {BACK, UNDO} THEN handle_undo
          ELSE IF r = <<>> THEN handle_empty
          ELSE LET res == one_based_index(r, wordlist)
               IN IF res.raised THEN handle_error(r)
                  ELSE handle_accept(r, res.value)
       /\ pc' = "loop"

\* the lines the user types: the first word of the list anywhere, the last word
\* of the list in one run of at most MaxOtherRun consecutive entries
Offered(line) ==
    line \in OtherLines =>
        LET others == {k \in 1..Len(words) : words[k] # read_raw(PrimaryLine)}
        IN \/ others = {}
           \/ Cardinality(others) < MaxOtherRun /\ Len(words) \in others

\* the number in the prompt: f"Word #{len(words)+1:02d}: "
prompt_no == Len(words) + 1

\* loop tests that are off by one
LoopTest_le == Len(words) <= MAX_WORDS
LoopTest_early == Len(words) < MAX_WORDS - 1

\* while len(words) < MAX_WORDS
LoopTest == Len(words) < MAX_WORDS

Read(line) ==
    /\ pc = "loop" /\ LoopTest
    /\ Offered(line)
    /\ LoopBody(line)
    /\ UNCHANGED <<argv, bip39_file, wordlist, summary, plates, ci, cs>>

\* input() at end of file: EOFError is not caught
EndOfInput ==
    /\ pc = "loop" /\ LoopTest
    /\ pc' = "eof_error"
    /\ UNCHANGED <<argv, bip39_file, wordlist, words, indices, raw, printed, summary, plates, ci, cs>>

summary_table(ws, is) ==
    LET n == IF Len(ws) < Len(is) THEN Len(ws) ELSE Len(is)
    IN [k \in 1..n |-> [i |-> k, w |-> ws[k], idx1 |-> is[k], rows |-> rows_to_punch(is[k])]]

Summary ==
    /\ pc = "loop" /\ ~LoopTest
    /\ summary' = summary_table(words, indices)
    /\ pc' = "plate1"
    /\ UNCHANGED <<argv, bip39_file, wordlist, words, indices, raw, printed, plates, ci, cs>>

\* a second slice that starts one entry early
second_block_off(is) == SubSeq(is, PLATE_ROWS, Len(is))

first_block(is) == SubSeq(is, 1, IF Len(is) < PLATE_ROWS THEN Len(is) ELSE PLATE_ROWS)
second_block(is) == SubSeq(is, PLATE_ROWS + 1, Len(is))

Plate1 ==
    /\ pc = "plate1"
    /\ plates' = Append(plates, render_plate_rotated(first_block(indices), 1, 1))
    /\ pc' = "plate2"
    /\ UNCHANGED <<argv, bip39_file, wordlist, words, indices, raw, printed, summary, ci, cs>>

Plate2 ==
    /\ pc = "plate2"
    /\ plates' = Append(plates, render_plate_rotated(second_block(indices), 2, 13))
    /\ pc' = "done"
    /\ UNCHANGED <<argv, bip39_file, wordlist, words, indices, raw, printed, summary, ci, cs>>

Next ==
    \/ StartCheck
    \/ CheckStep
    \/ CheckDone
    \/ Load
    \/ \E line \in InputLines : Read(line)
    \/ EndOfInput
    \/ Summary
    \/ Plate1
    \/ Plate2

Spec == Init /\ [][Next]_vars

(***************************************************************************)
(* Properties                                                              *)
(***************************************************************************)
Range(s) == {s[k] : k \in 1..Len(s)}
Weights == Range(POWERS_DESC)

RECURSIVE SetSum(_)
SetSum(S) ==
    IF S = {} THEN 0
    ELSE LET x == CHOOSE y \in S : TRUE IN x + SetSum(S \ {x})

StrictlyDescending(s) == \A k \in 1..(Len(s) - 1) : s[k] > s[k + 1]

\* C1: for every i in 1..2048 (each value the self-check loop has reached),
\* rows_to_punch(i) lists, in descending order, weights of POWERS_DESC that sum
\* to i, no other subset of the twelve weights sums to i, the self-check's own
\* sum agrees, and 3 -> [2,1], 2047 -> [1024,...,1], 2048 -> [2048]; the rows
\* main prints for an accepted word are such a list for its index.
C1_RowsToPunch ==
    /\ (pc = "loop" /\ printed.kind = "index") =>
          (/\ printed.i \in 1..2048
           /\ printed.rows = rows_to_punch(printed.i)
           /\ Range(printed.rows) \subseteq Weights
           /\ StrictlyDescending(printed.rows)
           /\ SeqSum(printed.rows) = printed.i)
    /\ (argv = "check" /\ ci >= 1) =>
        LET r == rows_to_punch(ci)
        IN /\ pc # "assert_failed"
           /\ cs = ci
           /\ Range(r) \subseteq Weights
           /\ StrictlyDescending(r)
           /\ SeqSum(r) = ci
           /\ Len(r) >= 1
           /\ \A S \in SUBSET Weights : SetSum(S) = ci => S = Range(r)
           /\ (ci = 3 => r = <<2, 1>>)
           /\ (ci = 2047 => r = <<1024, 512, 256, 128, 64, 32, 16, 8, 4, 2, 1>>)
           /\ (ci = 2048 => r = <<2048>>)

\* the self-check has decomposed the last index, 2048, into the single weight 2048
C1_Witness ==
    argv = "check" /\ pc = "exit" /\ ci = 2048 /\ cs = 2048 /\ rows_to_punch(ci) = <<2048>>

IsMember(w, wl) == \E k \in 1..Len(wl) : wl[k] = w

\* n is the 1-based position of the first entry of wl equal to w
FirstAt(w, wl, n) ==
    /\ n \in 1..Len(wl)
    /\ wl[n] = w
    /\ \A j \in 1..(n - 1) : wl[j] # w

\* "back" or "undo"
IsUndoCommand(r) == r = <<98, 97, 99, 107>> \/ r = <<117, 110, 100, 111>>

\* C2: while COLLECTING, a step that reads a line whose word is a member of the
\* loaded wordlist appends exactly one entry (the word, its 1-based position) to
\* the end of the session, and 24 entries make the session COMPLETE.
C2_MemberWordAppends ==
    [][\A line \in InputLines :
          (raw' = read_raw(line) /\ Read(line) /\ IsMember(read_raw(line), wordlist)) =>
              /\ words' = Append(words, read_raw(line))
              /\ Len(indices') = Len(indices) + 1
              /\ SubSeq(indices', 1, Len(indices)) = indices
              /\ FirstAt(read_raw(line), wordlist, indices'[Len(indices')])
              /\ (Len(words') = 24 => ~LoopTest')]_vars

\* C3: the number of held entries is always in 0..24, and an undo command read
\* with 0 entries held leaves the session at 0 entries.
C3_EntriesBounded ==
    /\ [](Len(words) \in 0..24 /\ Len(indices) \in 0..24)
    /\ [][\A line \in InputLines :
            (IsUndoCommand(read_raw(line)) /\ Len(words) = 0 /\ Read(line)) =>
                (words' = <<>> /\ indices' = <<>> /\ pc' = "loop")]_vars

\* "undo" was read with nothing held: nothing to remove, still nothing held
C3_Witness ==
    /\ pc = "loop" /\ IsUndoCommand(raw)
    /\ printed.kind = "Nothing to remove" /\ words = <<>> /\ indices = <<>>

\* C4: right after the load, one_based_index resolves every word of the wordlist
\* to its 1-based position (the first place the word stands at); resolving the
\* word just accepted once more gives the index that was stored, and a word held
\* twice is held with the same index both times.
C4_OneBasedIndex ==
    pc = "loop" =>
        /\ (printed.kind = "Enter your 24 BIP-39 words" =>
               \A k \in 1..Len(wordlist) :
                   LET res == one_based_index(wordlist[k], wordlist)
                   IN ~res.raised /\ FirstAt(wordlist[k], wordlist, res.value))
        /\ (printed.kind = "index" =>
               /\ FirstAt(printed.w, wordlist, printed.i)
               /\ one_based_index(printed.w, wordlist) = [raised |-> FALSE, value |-> printed.i]
               /\ indices[Len(indices)] = printed.i)
        /\ \A j, k \in 1..Len(words) : words[j] = words[k] => indices[j] = indices[k]

\* the last word of the list was resolved to 2048 after the first word was
\* resolved twice
C4_Witness ==
    /\ pc = "loop" /\ printed.kind = "index" /\ printed.i = 2048
    /\ Len(words) = 3 /\ words[1] = words[2] /\ indices = <<1, 1, 2048>>

\* C5: a step that reads an empty line, or a word that is no command and not in
\* the wordlist, leaves words and indices unchanged, and the loop goes on to
\* prompt for the same word number.
C5_InvalidInputKeepsSession ==
    [][\A line \in InputLines :
          (/\ ~IsUndoCommand(read_raw(line))
           /\ raw' = read_raw(line)
           /\ Read(line)
           /\ (read_raw(line) = <<>> \/ ~IsMember(read_raw(line), wordlist))) =>
              /\ words' = words
              /\ indices' = indices
              /\ pc' = "loop"
              /\ LoopTest'
              /\ prompt_no' = prompt_no]_vars

\* a word that is not in the list was read while entries were held
C5_Witness ==
    /\ pc = "loop" /\ raw = INVALID_LOWERED /\ printed.kind = "not in BIP39 list"
    /\ Len(words) = 2 /\ Len(indices) = 2

\* C6: a step that reads "back" or "undo" with at least one entry held removes
\* the last entry and nothing else: the session after it, with the removed entry
\* put back at the end, is the session before it; the loop then prompts for the
\* removed word's number.  An entry just accepted is the one removed.
C6_UndoRemovesLast ==
    [][\A line \in InputLines :
          (IsUndoCommand(read_raw(line)) /\ Len(words) >= 1 /\ Read(line)) =>
              /\ Append(words', words[Len(words)]) = words
              /\ Append(indices', indices[Len(indices)]) = indices
              /\ pc' = "loop"
              /\ prompt_no' = Len(words)
              /\ (printed.kind = "index" =>
                     (Append(words', printed.w) = words /\ Append(indices', printed.i) = indices))]_vars

\* "back" or "undo" right after the first word: the session is empty again
C6_Witness ==
    /\ pc = "loop" /\ IsUndoCommand(raw) /\ printed.kind = "Removed"
    /\ words = <<>> /\ indices = <<>>

IsAfterLoop == pc \in {"plate1", "plate2", "done"}

\* C7: the loop is left only with exactly 24 entries held, and at once: with 24
\* entries the only step is the one that prints the summary, nothing is read and
\* no entry is added or removed from then on; summary and plates exist only
\* with 24 entries.
C7_ExitOnlyAtComplete ==
    /\ [](IsAfterLoop => (Len(words) = 24 /\ Len(indices) = 24))
    /\ []((summary # <<>> \/ plates # <<>>) => (Len(words) = 24 /\ Len(summary) = 24))
    /\ [][(pc = "loop" /\ Len(words) = 24) =>
             (pc' = "plate1" /\ UNCHANGED <<words, indices, raw>>)]_vars
    /\ [][(pc = "loop" /\ Len(words) < 24) => ~IsAfterLoop']_vars
    /\ [][IsAfterLoop => (IsAfterLoop' /\ UNCHANGED <<words, indices, raw>>)]_vars

\* the program is through with 24 entries held
C7_Witness == pc = "done" /\ Len(words) = 24 /\ Len(summary) = 24 /\ Len(plates) = 2

\* the weights marked in a printed row
MarkedSum(row) ==
    SeqSum([j \in 1..Len(row.marks) |-> IF row.marks[j] THEN POWERS_DESC[j] ELSE 0])

\* plate pl is plate number no and shows entries off+1 .. off+12 in order
PlateShows(pl, no, off) ==
    /\ pl.plate_no = no
    /\ pl.first = off + 1 /\ pl.last = off + 12
    /\ Len(pl.rows) = 12
    /\ \A k \in 1..12 :
          /\ pl.rows[k].r = off + k
          /\ pl.rows[k].idx1 = indices[off + k]
          /\ Len(pl.rows[k].marks) = 12
          /\ MarkedSum(pl.rows[k]) = indices[off + k]

\* C8: when the program is done exactly two plates are printed, plate 1 with 12
\* rows for entries 1..12 numbered 1..12 and then plate 2 with 12 rows for
\* entries 13..24 numbered 13..24, so each entry is in exactly one row; printing
\* the plates changes neither words nor indices.
C8_TwoPlates ==
    /\ [](pc = "done" =>
            /\ Len(plates) = 2
            /\ PlateShows(plates[1], 1, 0)
            /\ PlateShows(plates[2], 2, 12)
            /\ \A n \in 1..Len(indices) :
                  Cardinality({pk \in {1, 2} \X (1..13) :
                                 /\ pk[2] <= Len(plates[pk[1]].rows)
                                 /\ plates[pk[1]].rows[pk[2]].r = n}) = 1)
    /\ [](pc = "plate2" => (Len(plates) = 1 /\ PlateShows(plates[1], 1, 0)))
    /\ [](pc \in {"start", "loop", "plate1"} => plates = <<>>)
    /\ [][(pc \in {"plate1", "plate2"}) => (words' = words /\ indices' = indices)]_vars

\* both plates are printed and the last row of plate 2 shows index 2048
C8_Witness ==
    /\ pc = "done" /\ Len(plates) = 2
    /\ plates[2].rows[12].idx1 = 2048 /\ plates[2].rows[12].r = 24
    /\ plates[1].rows[1].idx1 = 1

\* what load_bip39 is to read: how many lines of each file hold a character that
\* is not whitespace
EntryCount ==
    [f \in FileNames |->
        LET ls == FS[f].lines
        IN Cardinality({n \in 1..Len(ls) :
                          \E c \in 1..Len(ls[n]) : ls[n][c] \notin WHITESPACE})]

\* w is the line without the whitespace at its two ends, and is not empty
IsStripped(w, line) ==
    /\ w # <<>>
    /\ w[1] \notin WHITESPACE /\ w[Len(w)] \notin WHITESPACE
    /\ \E a \in 0..Len(line) :
          /\ a + Len(w) <= Len(line)
          /\ SubSeq(line, a + 1, a + Len(w)) = w
          /\ \A c \in 1..Len(line) : (c <= a \/ c > a + Len(w)) => line[c] \in WHITESPACE

\* the wordlist holds, in the file's order, the stripped lines of the file that
\* are not blank
LoadedInOrder ==
    LET ls == FS[bip39_file].lines
        at == {n \in 1..Len(ls) : \E c \in 1..Len(ls[n]) : ls[n][c] \notin WHITESPACE}
    IN /\ Len(wordlist) = Cardinality(at)
       /\ \A n \in at : IsStripped(wordlist[Cardinality({m \in at : m <= n})], ls[n])

\* C9 as stated: while the loop runs the wordlist has exactly 2048 pairwise
\* distinct entries, and the program has ended before any prompt when the file
\* is missing or its entries are not such a sequence.
C9_WordlistDistinct ==
    pc \in {"loop", "eof_error", "plate1", "plate2", "done"} =>
        /\ Len(wordlist) = 2048
        /\ Cardinality(Range(wordlist)) = 2048

\* C9 amended: while the loop runs the wordlist has exactly 2048 entries, not
\* necessarily distinct, each a stripped non-empty line; it never changes after
\* the load; the program ends before any prompt exactly when the file is
\* missing or the number of its stripped non-empty lines is not 2048.
C9_WordlistLength ==
    /\ []((argv = "main" /\ pc # "start") =>
            IF FS[bip39_file].exists /\ EntryCount[bip39_file] = 2048
            THEN /\ pc # "exit"
                 /\ Len(wordlist) = 2048
                 /\ (printed.kind = "Enter your 24 BIP-39 words" => LoadedInOrder)
            ELSE /\ pc = "exit"
                 /\ words = <<>> /\ indices = <<>> /\ raw = <<>>
                 /\ printed.kind \in {"Word list file not found", "Unexpected word list length"})
    /\ [][pc # "start" => wordlist' = wordlist]_vars

\* the loop runs on a list of 2048 entries whose last entry repeats the first
C9_Witness ==
    /\ pc = "loop" /\ Len(wordlist) = 2048 /\ wordlist[1] = wordlist[2048]
    /\ Len(words) = 1

\* C10: words and indices have the same length; each stored index is in 1..2048
\* and is the 1-based position of the stored word in the wordlist; a step keeps
\* every entry it does not remove, and removes at most the last entry, only on
\* reading "back" or "undo".
C10_EntriesConsistent ==
    /\ [](/\ Len(words) = Len(indices)
          /\ \A k \in 1..Len(words) :
                indices[k] \in 1..2048 /\ FirstAt(words[k], wordlist, indices[k]))
    /\ [][(\A k \in 1..Len(words) :
               k <= Len(words') => (words'[k] = words[k] /\ indices'[k] = indices[k]))
           /\ (Len(words') >= Len(words) - 1)
           /\ (Len(words') < Len(words) =>
                 (pc = "loop" /\ IsUndoCommand(raw') /\ Len(indices') = Len(indices) - 1))]_vars

\* an entry with index 2048 is held below a later entry after an undo
C10_Witness ==
    /\ pc = "loop" /\ printed.kind = "Removed"
    /\ Len(words) = 2 /\ indices = <<2048, 1>>

====
